---------------------------- MODULE Spec2Model ----------------------------
(***************************************************************************)
(* Model of the artifact_analysis pipeline:                                *)
(*   - generate_combined_rankings.py      (_normalize_name,                *)
(*     _merge_rankings, _build_entry, the filter and re-rank of            *)
(*     generate_combined_rankings)                                         *)
(*   - enrich_affiliations_dblp_incremental.py (should_search_author,      *)
(*     enrich_affiliations, the search history)                            *)
(*   - enrich_affiliations_csrankings.py  (enrich_affiliations)            *)
(*                                                                         *)
(* A string is a sequence of characters, each character a one-element      *)
(* TLA+ string ("E_acute" and "comb_acute" name the two non-ASCII code     *)
(* points U+00C9 and U+0301).  A Python dict is a TLA+ function whose      *)
(* DOMAIN is the set of keys present.                                      *)
(***************************************************************************)
EXTENDS Integers, Sequences, FiniteSets, TLC

VARIABLES
    \* ---- name normaliser runs (generate_combined_rankings.py) ----
    nameIn,        \* the raw name handed to _normalize_name
    key1,          \* _normalize_name(nameIn)
    key2,          \* _normalize_name(key1)
    npc,           \* "idle" | "in" | "once" | "twice"
    \* ---- one merge run (generate_combined_rankings.py) ----
    authors,       \* the authors list handed to _merge_rankings
    ae_members,    \* the AE-members list handed to _merge_rankings
    built,         \* the local list `combined` before it is sorted
    combined,      \* the list _merge_rankings returns (sorted, ranked)
    filtered,      \* the list after the score filter and the re-rank
    mpc,           \* "idle" | "load" | "start" | "merged" | "filtered"
                   \* | "written" | "error"
    authors_json,     \* the file authors.json: <<the list>>, <<>> if absent
    ae_members_json,  \* the file ae_members.json, likewise
    rankings_json,    \* the file combined_rankings.json, likewise
    summary_yml,      \* the file combined_summary.yml, likewise
    \* ---- calls of should_search_author (DBLP enricher) ----
    q_name,        \* the author name asked about
    q_history,     \* the search history handed in
    q_now,         \* time.time() at the call
    q_res,         \* the decision for q_history
    q_res_next,    \* the decision once one more search has failed
    qpc,           \* "idle" | "ask" | "asked" | "asked_next"
    \* ---- the files and the clock the two enrichers work on ----
    authors_file,  \* authors.json: <<the list of author dicts>>, <<>> if absent
    hist_file,     \* SEARCH_HISTORY_FILE as load_search_history reads it
    cache,         \* the files under CACHE_DIR: path -> {ts, body}
    clock,         \* time.time()
    \* ---- one run of the DBLP enricher (main, enrich_affiliations) ----
    epc,           \* "idle" | "searching" | "done" | "error"
    clear_history, \* args.clear_history
    max_searches,  \* args.max_searches: <<k>>, <<>> for None
    authors_in,    \* authors_data as loaded (kept for comparison)
    authors_data,  \* the author dicts, updated in place
    hist_loaded,   \* the history as loaded (kept for comparison)
    history,       \* the dict `history`
    to_search,     \* the list of (priority, name, author) tuples
    pos,           \* the position of the loop in to_search
    enriched_data, \* the list `enriched_data` (references to the dicts)
    searches_performed,  \* stats['searches_performed']
    attempted,     \* the search attempts made so far, in order
    returned,      \* the list the run returns
    \* ---- one run of the CSRankings enricher (enrich_affiliations) ----
    csr_pc,        \* "idle" | "done" | "error"
    csr_missing,   \* the list `missing_affiliation` (references)
    csr_authors,   \* the list `authors`, updated in place
    csr_out,       \* the output file: <<the list>>, <<>> if absent
    \* ---- calls of the CSRankings fuzzy_name_match ----
    f_author,      \* the argument author_name
    f_csrankings,  \* the argument csrankings_name
    f_res,         \* the value returned
    fpc,           \* "idle" | "call" | "returned"
    \* ---- calls of _read_cache and _write_cache (DBLP enricher) ----
    c_slot,        \* the key and the namespace of the last call
    c_res,         \* what the last _read_cache did: raised, or the value
    cpc            \* "idle" | "ready" | "read" | "written"

normVars == <<nameIn, key1, key2, npc>>
mergeVars == <<authors, ae_members, built, combined, filtered, mpc,
               authors_json, ae_members_json, rankings_json, summary_yml>>
schedVars == <<q_name, q_history, q_now, q_res, q_res_next, qpc>>

diskVars == <<authors_file, hist_file, cache, clock>>
dblpVars == <<epc, clear_history, max_searches, authors_in, authors_data,
              hist_loaded, history, to_search, pos, enriched_data,
              searches_performed, attempted, returned>>
csrVars == <<csr_pc, csr_missing, csr_authors, csr_out>>
enrichVars == <<diskVars, dblpVars, csrVars>>

fuzzyVars == <<f_author, f_csrankings, f_res, fpc>>

cacheVars == <<c_slot, c_res, cpc>>

vars == <<normVars, mergeVars, schedVars, enrichVars, fuzzyVars, cacheVars>>

NotNorm == <<mergeVars, schedVars, enrichVars, fuzzyVars, cacheVars>>
NotMerge == <<normVars, schedVars, enrichVars, fuzzyVars, cacheVars>>
NotSched == <<normVars, mergeVars, enrichVars, fuzzyVars, cacheVars>>
NotEnrich == <<normVars, mergeVars, schedVars, fuzzyVars, cacheVars>>
NotFuzzy == <<normVars, mergeVars, schedVars, enrichVars, cacheVars>>
NotCache == <<normVars, mergeVars, schedVars, authors_file, hist_file,
              dblpVars, csrVars, fuzzyVars>>

NormIdle ==
    /\ nameIn = <<>>
    /\ key1 = <<>>
    /\ key2 = <<>>
    /\ npc = "idle"

MergeIdle ==
    /\ authors = <<>>
    /\ ae_members = <<>>
    /\ built = <<>>
    /\ combined = <<>>
    /\ filtered = <<>>
    /\ mpc = "idle"
    /\ authors_json = <<>>
    /\ ae_members_json = <<>>
    /\ rankings_json = <<>>
    /\ summary_yml = <<>>

SchedIdle ==
    /\ q_name = <<>>
    /\ q_history = <<>>
    /\ q_now = 0
    /\ q_res = <<>>
    /\ q_res_next = <<>>
    /\ qpc = "idle"

DblpIdle ==
    /\ epc = "idle"
    /\ clear_history = FALSE
    /\ max_searches = <<>>
    /\ authors_in = <<>>
    /\ authors_data = <<>>
    /\ hist_loaded = <<>>
    /\ history = <<>>
    /\ to_search = <<>>
    /\ pos = 0
    /\ enriched_data = <<>>
    /\ searches_performed = 0
    /\ attempted = <<>>
    /\ returned = <<>>

CsrIdle ==
    /\ csr_pc = "idle"
    /\ csr_missing = <<>>
    /\ csr_authors = <<>>
    /\ csr_out = <<>>

CacheIdle ==
    /\ c_slot = <<>>
    /\ c_res = [raised |-> FALSE, value |-> <<>>]
    /\ cpc = "idle"

FuzzyIdle ==
    /\ f_author = <<>>
    /\ f_csrankings = <<>>
    /\ f_res = FALSE
    /\ fpc = "idle"

EnrichIdle ==
    /\ authors_file = <<>>
    /\ hist_file = <<>>
    /\ cache = <<>>
    /\ clock = 0
    /\ DblpIdle
    /\ CsrIdle

-----------------------------------------------------------------------------
(* Bounds of the model *)

\* How many pieces an enumerated raw name is concatenated from.
MaxPieces == 4
\* The largest attempt_count of an enumerated history entry, and the
\* largest number of days between the last search and the call.
MaxAttemptCount == 7
MaxElapsedDays == 33
\* How many author records and AE-member records an enumerated merge
\* input holds.
MaxAuthors == 2
MaxMembers == 1
\* How many author dicts an enumerated authors.json holds, and the
\* largest --max_searches / --max_authors handed to an enricher.
MaxFileAuthors == 2
MaxCap == 1
\* How many tokens an enumerated argument of fuzzy_name_match holds.
MaxNameTokens == 2

-----------------------------------------------------------------------------
(* Characters *)

UC == <<"A","B","C","D","E","F","G","H","I","J","K","L","M",
        "N","O","P","Q","R","S","T","U","V","W","X","Y","Z">>
LC == <<"a","b","c","d","e","f","g","h","i","j","k","l","m",
        "n","o","p","q","r","s","t","u","v","w","x","y","z">>
Digits == <<"0","1","2","3","4","5","6","7","8","9">>

Range(f) == { f[i] : i \in DOMAIN f }

UpperChars == Range(UC)
LowerChars == Range(LC)
DigitChars == Range(Digits)

IsAsciiUpper(c) == c \in UpperChars
IsAsciiLower(c) == c \in LowerChars
IsDigit(c)      == c \in DigitChars
\* \s of the re module, restricted to the alphabet of the model
IsSpace(c)      == c \in {" ", "\t"}
\* \w of the re module: alphanumerics and the underscore; a combining mark
\* (category Mn) is not a word character
IsWord(c)       == IsAsciiUpper(c) \/ IsAsciiLower(c) \/ IsDigit(c)
                   \/ c \in {"_", "E_acute", "e_acute"}

IndexIn(c, seq) == CHOOSE i \in DOMAIN seq : seq[i] = c

Chars == UpperChars \cup LowerChars \cup DigitChars
            \cup {"\t", " ", ".", "_", "E_acute", "e_acute", "comb_acute"}

\* ord(): the code point of each character
OrdTable ==
    [c \in Chars |->
        IF IsAsciiUpper(c) THEN 64 + IndexIn(c, UC)
        ELSE IF IsAsciiLower(c) THEN 96 + IndexIn(c, LC)
        ELSE IF IsDigit(c) THEN 47 + IndexIn(c, Digits)
        ELSE CASE c = "\t" -> 9
               [] c = " " -> 32
               [] c = "." -> 46
               [] c = "_" -> 95
               [] c = "E_acute" -> 201
               [] c = "e_acute" -> 233
               [] c = "comb_acute" -> 769]

Ord(c) == OrdTable[c]

\* str.lower() on each character
LowerTable ==
    [c \in Chars |->
        IF IsAsciiUpper(c) THEN LC[IndexIn(c, UC)]
        ELSE IF c = "E_acute" THEN "e_acute"
        ELSE c]

LowerChar(c) == LowerTable[c]

\* unicodedata.normalize('NFKD', .) on one character
NFKDChar(c) ==
    CASE c = "E_acute" -> <<"E", "comb_acute">>
      [] c = "e_acute" -> <<"e", "comb_acute">>
      [] OTHER -> <<c>>

RECURSIVE NFKD(_)
NFKD(s) == IF s = <<>> THEN <<>> ELSE NFKDChar(Head(s)) \o NFKD(Tail(s))

\* str.lower()
Lower(s) == [i \in 1..Len(s) |-> LowerChar(s[i])]

-----------------------------------------------------------------------------
(* _normalize_name *)

\* first index >= i of s that holds no whitespace (Len(s)+1 if none)
RECURSIVE SkipSpaces(_, _)
SkipSpaces(s, i) ==
    IF i <= Len(s) /\ IsSpace(s[i]) THEN SkipSpaces(s, i + 1) ELSE i

\* first index of the whitespace run that ends at index i
RECURSIVE RunStart(_, _)
RunStart(s, i) ==
    IF i > 1 /\ IsSpace(s[i - 1]) THEN RunStart(s, i - 1) ELSE i

\* _DBLP_SUFFIX.sub('', s), _DBLP_SUFFIX = \s+\d{4}$
StripDblpSuffix(s) ==
    LET n == Len(s) IN
    IF /\ n >= 5
       /\ \A k \in (n - 3)..n : IsDigit(s[k])
       /\ IsSpace(s[n - 4])
    THEN SubSeq(s, 1, RunStart(s, n - 4) - 1)
    ELSE s

\* _INITIALS.sub('', s), _INITIALS = \b[A-Z]\.\s* : scan from index i
RECURSIVE StripInitialsFrom(_, _)
StripInitialsFrom(s, i) ==
    IF i > Len(s) THEN <<>>
    ELSE IF /\ IsAsciiUpper(s[i])
            /\ (i = 1 \/ ~IsWord(s[i - 1]))
            /\ i + 1 <= Len(s)
            /\ s[i + 1] = "."
         THEN StripInitialsFrom(s, SkipSpaces(s, i + 2))
         ELSE <<s[i]>> \o StripInitialsFrom(s, i + 1)

StripInitials(s) == StripInitialsFrom(s, 1)

\* _MULTI_SPACE.sub(' ', s), _MULTI_SPACE = \s+
RECURSIVE CollapseFrom(_, _)
CollapseFrom(s, i) ==
    IF i > Len(s) THEN <<>>
    ELSE IF IsSpace(s[i]) THEN <<" ">> \o CollapseFrom(s, SkipSpaces(s, i))
         ELSE <<s[i]>> \o CollapseFrom(s, i + 1)

CollapseSpaces(s) == CollapseFrom(s, 1)

RECURSIVE LStrip(_)
LStrip(s) == IF s # <<>> /\ IsSpace(Head(s)) THEN LStrip(Tail(s)) ELSE s

RECURSIVE RStrip(_)
RStrip(s) ==
    IF s # <<>> /\ IsSpace(s[Len(s)]) THEN RStrip(SubSeq(s, 1, Len(s) - 1))
    ELSE s

\* str.strip()
Strip(s) == RStrip(LStrip(s))

\* str.lstrip('_')
RECURSIVE LStripUnderscore(_)
LStripUnderscore(s) ==
    IF s # <<>> /\ Head(s) = "_" THEN LStripUnderscore(Tail(s)) ELSE s

\* NFKD -> lower -> strip DBLP suffix -> strip initials -> collapse
\* whitespace -> strip -> strip leading underscores -> strip
NormalizeName(name) ==
    LET n1 == NFKD(name)
        n2 == Lower(n1)
        n3 == StripDblpSuffix(n2)
        n4 == StripInitials(n3)
        n5 == Strip(CollapseSpaces(n4))
    IN  Strip(LStripUnderscore(n5))

-----------------------------------------------------------------------------
(* Runs of the normaliser on enumerated raw names *)

Pieces == { <<"a">>, <<"J">>, <<".">>, <<" ">>, <<"_">>,
            <<"0","0","0","1">>, <<"E_acute">>,
            <<" ","J","."," ">>, <<" ","J"," ">> }

RECURSIVE Concat(_)
Concat(ps) == IF ps = <<>> THEN <<>> ELSE Head(ps) \o Concat(Tail(ps))

RawNames ==
    UNION { { Concat(ps) : ps \in [1..k -> Pieces] } : k \in 0..MaxPieces }

NormInit ==
    /\ nameIn \in RawNames
    /\ key1 = <<>>
    /\ key2 = <<>>
    /\ npc = "in"
    /\ MergeIdle
    /\ SchedIdle
    /\ EnrichIdle
    /\ FuzzyIdle
    /\ CacheIdle

\* key = _normalize_name(name)
Normalize ==
    /\ npc = "in"
    /\ key1' = NormalizeName(nameIn)
    /\ npc' = "once"
    /\ UNCHANGED <<nameIn, key2, NotNorm>>

\* the key of a key: _normalize_name(_normalize_name(name))
NormalizeAgain ==
    /\ npc = "once"
    /\ key2' = NormalizeName(key1)
    /\ npc' = "twice"
    /\ UNCHANGED <<nameIn, key1, NotNorm>>

NormNext == Normalize \/ NormalizeAgain

SpecNorm == NormInit /\ [][NormNext]_vars

-----------------------------------------------------------------------------
(* _merge_rankings and _build_entry *)

\* Scoring weights
W_AVAILABLE == 1
W_FUNCTIONAL == 1
W_REPRODUCIBLE == 1
W_AE_MEMBERSHIP == 3
W_AE_CHAIR == 2

\* dict.get(k, default)
Get(d, k, default) == IF k \in DOMAIN d THEN d[k] ELSE default

\* Python's `x or ''` on strings
OrStr(x, y) == IF x = <<>> THEN y ELSE x

Max(a, b) == IF a >= b THEN a ELSE b

\* member_by_norm: the AE members indexed by normalised name; on a
\* collision the member with strictly more memberships is kept
RECURSIVE MemberByNormFrom(_, _, _)
MemberByNormFrom(ms, i, acc) ==
    IF i > Len(ms) THEN acc
    ELSE LET m == ms[i]
             norm == NormalizeName(m.name)
         IN  MemberByNormFrom(ms, i + 1,
                IF norm \in DOMAIN acc
                THEN IF Get(m, "total_memberships", 0)
                            > Get(acc[norm], "total_memberships", 0)
                     THEN [acc EXCEPT ![norm] = m]
                     ELSE acc
                ELSE acc @@ (norm :> m))

MemberByNorm(ms) == MemberByNormFrom(ms, 1, <<>>)

\* the keys of member_by_norm in insertion order (the order of the walk)
RECURSIVE MemberNormsFrom(_, _, _)
MemberNormsFrom(ms, i, acc) ==
    IF i > Len(ms) THEN acc
    ELSE LET norm == NormalizeName(ms[i].name)
         IN  MemberNormsFrom(ms, i + 1,
                IF \E j \in DOMAIN acc : acc[j] = norm THEN acc
                ELSE Append(acc, norm))

MemberNorms(ms) == MemberNormsFrom(ms, 1, <<>>)

\* author_groups[norm]: the authors of one normalised name, in list order
RECURSIVE GroupOf(_, _)
GroupOf(as, norm) ==
    IF as = <<>> THEN <<>>
    ELSE (IF NormalizeName(Head(as).name) = norm THEN <<Head(as)>> ELSE <<>>)
         \o GroupOf(Tail(as), norm)

AuthorGroups(as) ==
    [norm \in { NormalizeName(as[i].name) : i \in DOMAIN as } |->
        GroupOf(as, norm)]

\* len(set(a.get('conferences', [])) & ae_confs)
Overlap(a, ae_confs) == Cardinality(Get(a, "conferences", {}) \cap ae_confs)

\* scored.sort(key=lambda x: -x[0]): a stable sort, largest overlap first
RECURSIVE InsertByOverlap(_, _)
InsertByOverlap(x, sorted) ==
    IF sorted = <<>> THEN <<x>>
    ELSE IF Head(sorted).overlap >= x.overlap
         THEN <<Head(sorted)>> \o InsertByOverlap(x, Tail(sorted))
         ELSE <<x>> \o sorted

RECURSIVE SortByOverlap(_)
SortByOverlap(s) ==
    IF s = <<>> THEN <<>>
    ELSE InsertByOverlap(s[Len(s)], SortByOverlap(SubSeq(s, 1, Len(s) - 1)))

\* (mutant) a tie at the top goes to the first author of the sort
ClearWinner_TieToFirst(scored) ==
    /\ scored[1].overlap > 0
    /\ (Len(scored) < 2 \/ scored[1].overlap >= scored[2].overlap)

\* the test that declares scored[0] the clear winner
ClearWinner(scored) ==
    /\ scored[1].overlap > 0
    /\ (Len(scored) < 2 \/ scored[1].overlap > scored[2].overlap)

\* _ae_winner[norm] for one group: <<name>> for a winner, <<>> for None
AeWinnerOf(group, m) ==
    IF Len(group) = 1 THEN <<group[1].name>>
    ELSE LET ae_confs == Get(m, "conferences", {})
             scored == SortByOverlap(
                 [i \in 1..Len(group) |->
                     [overlap |-> Overlap(group[i], ae_confs),
                      name |-> group[i].name]])
         IN  IF ClearWinner(scored) THEN <<scored[1].name>> ELSE <<>>

\* _ae_winner: defined on the keys that have both authors and a member
AeWinner(as, ms) ==
    LET groups == AuthorGroups(as)
        mb == MemberByNorm(ms)
    IN  [norm \in (DOMAIN groups) \cap (DOMAIN mb) |->
            AeWinnerOf(groups[norm], mb[norm])]

\* is_winner = (norm in _ae_winner and _ae_winner[norm] == a['name'])
IsWinner(a, winner) ==
    LET norm == NormalizeName(a.name)
    IN  norm \in DOMAIN winner /\ winner[norm] = <<a.name>>

None == "None"

\* artifact_score, ae_score and combined_score of an entry
ArtifactScore(artifacts, badges_functional, badges_reproducible) ==
    artifacts * W_AVAILABLE + badges_functional * W_FUNCTIONAL
        + badges_reproducible * W_REPRODUCIBLE

\* (mutant) the two AE weights exchanged
AeScore_Swapped(ae_memberships, chair_count) ==
    ae_memberships * W_AE_CHAIR + chair_count * W_AE_MEMBERSHIP

AeScore(ae_memberships, chair_count) ==
    ae_memberships * W_AE_MEMBERSHIP + chair_count * W_AE_CHAIR

CombinedScore(artifact_score, ae_score) == artifact_score + ae_score

SetMin(S) == CHOOSE x \in S : \A y \in S : x <= y
SetMax(S) == CHOOSE x \in S : \A y \in S : x >= y

BuildEntry(name, affiliation, artifacts, total_papers, artifact_rate, ae_memberships, chair_count, conferences, years, badges_available, badges_functional, badges_reproducible) ==
    LET artifact_score ==
            ArtifactScore(artifacts, badges_functional, badges_reproducible)
        ae_score == AeScore(ae_memberships, chair_count)
    IN  [name |-> name,
         affiliation |-> affiliation,
         artifacts |-> artifacts,
         artifact_score |-> artifact_score,
         total_papers |-> total_papers,
         artifact_rate |-> artifact_rate,
         ae_memberships |-> ae_memberships,
         chair_count |-> chair_count,
         ae_score |-> ae_score,
         combined_score |-> CombinedScore(artifact_score, ae_score),
         badges_available |-> badges_available,
         badges_functional |-> badges_functional,
         badges_reproducible |-> badges_reproducible,
         conferences |-> conferences,
         years |-> years,
         first_year |-> IF DOMAIN years = {} THEN None
                        ELSE SetMin(DOMAIN years),
         last_year |-> IF DOMAIN years = {} THEN None
                       ELSE SetMax(DOMAIN years)]


\* the author's years as a dict: a list [y, ...] counts each year once
AuthorYears(a) ==
    LET raw == Get(a, "years", [kind |-> "dict", items |-> <<>>])
    IN  IF raw.kind = "list"
        THEN [y \in { raw.items[i] : i \in DOMAIN raw.items } |-> 1]
        ELSE raw.items

\* years[yr] = max(years.get(yr, 0), cnt) for every year of the member
MergeYears(years, m_years) ==
    [y \in (DOMAIN years) \cup (DOMAIN m_years) |->
        IF y \in DOMAIN m_years
        THEN Max(Get(years, y, 0), m_years[y])
        ELSE years[y]]

\* m['total_memberships'] and m['chair_count'] of a winner's member are
\* read without a default: a KeyError when the key is missing
AuthorRaises(a, winner, mb) ==
    /\ IsWinner(a, winner)
    /\ LET m == mb[NormalizeName(a.name)]
       IN  "total_memberships" \notin DOMAIN m \/ "chair_count" \notin DOMAIN m

\* step 1 of the walk: the entry of one author
AuthorEntry(a, winner, mb) ==
    LET norm == NormalizeName(a.name)
        linked == IsWinner(a, winner)
        m == IF linked THEN mb[norm] ELSE <<>>
        years == IF linked
                 THEN MergeYears(AuthorYears(a), Get(m, "years", <<>>))
                 ELSE AuthorYears(a)
        m_confs == IF linked THEN Get(m, "conferences", {}) ELSE {}
    IN  BuildEntry(
            a.name,
            IF linked
            THEN OrStr(Get(m, "affiliation", <<>>), Get(a, "affiliation", <<>>))
            ELSE Get(a, "affiliation", <<>>),
            Get(a, "total", Get(a, "artifact_count", 0)),
            Get(a, "total_papers", 0),
            Get(a, "artifact_rate", 0),
            IF linked THEN m.total_memberships ELSE 0,
            IF linked THEN m.chair_count ELSE 0,
            Get(a, "conferences", {}) \cup m_confs,
            years,
            Get(a, "badges_available", 0),
            Get(a, "badges_functional", 0),
            Get(a, "badges_reproducible", 0))

\* linked_ae_norms: the keys whose member went to a winning author
LinkedAeNorms(as, winner) ==
    { NormalizeName(as[i].name) : i \in { j \in DOMAIN as : IsWinner(as[j], winner) } }

\* step 2 of the walk: the entry of a member no author absorbed
MemberEntry(m) ==
    BuildEntry(m.name, Get(m, "affiliation", <<>>), 0, 0, 0,
               Get(m, "total_memberships", 0), Get(m, "chair_count", 0),
               Get(m, "conferences", {}), Get(m, "years", <<>>), 0, 0, 0)

RECURSIVE MemberEntriesFrom(_, _, _, _)
MemberEntriesFrom(norms, i, mb, linked) ==
    IF i > Len(norms) THEN <<>>
    ELSE (IF norms[i] \in linked THEN <<>> ELSE <<MemberEntry(mb[norms[i]])>>)
         \o MemberEntriesFrom(norms, i + 1, mb, linked)

\* the list `combined` after both walks, before the sort
BuildCombined(as, ms) ==
    LET mb == MemberByNorm(ms)
        winner == AeWinner(as, ms)
    IN  [i \in 1..Len(as) |-> AuthorEntry(as[i], winner, mb)]
        \o MemberEntriesFrom(MemberNorms(ms), 1, mb, LinkedAeNorms(as, winner))

MergeRaises(as, ms) ==
    LET mb == MemberByNorm(ms)
        winner == AeWinner(as, ms)
    IN  \E i \in DOMAIN as : AuthorRaises(as[i], winner, mb)

\* str < str: by code point, a proper prefix first
RECURSIVE StrLess(_, _)
StrLess(s, t) ==
    IF t = <<>> THEN FALSE
    ELSE IF s = <<>> THEN TRUE
    ELSE IF Ord(Head(s)) # Ord(Head(t)) THEN Ord(Head(s)) < Ord(Head(t))
    ELSE StrLess(Tail(s), Tail(t))

\* the sort key (-combined_score, -artifacts, name), compared as tuples
KeyLess(x, y) ==
    \/ x.combined_score > y.combined_score
    \/ /\ x.combined_score = y.combined_score
       /\ \/ x.artifacts > y.artifacts
          \/ x.artifacts = y.artifacts /\ StrLess(x.name, y.name)

\* combined.sort(key=...): a stable sort
RECURSIVE InsertByKey(_, _)
InsertByKey(x, sorted) ==
    IF sorted = <<>> THEN <<x>>
    ELSE IF KeyLess(x, Head(sorted)) THEN <<x>> \o sorted
    ELSE <<Head(sorted)>> \o InsertByKey(x, Tail(sorted))

RECURSIVE SortByKey(_)
SortByKey(s) ==
    IF s = <<>> THEN <<>>
    ELSE InsertByKey(s[Len(s)], SortByKey(SubSeq(s, 1, Len(s) - 1)))

\* (mutant) a new bucket takes the next rank, not its position
NextRank_NoGap(lst, i, rank) ==
    IF i > 1 /\ lst[i].combined_score < lst[i - 1].combined_score
    THEN rank + 1 ELSE rank

\* the rank of entry i, the previous entry having rank `rank`
NextRank(lst, i, rank) ==
    IF i > 1 /\ lst[i].combined_score < lst[i - 1].combined_score
    THEN i ELSE rank

\* c['rank'] = rank over the list, rank starting at 1
RECURSIVE RankFrom(_, _, _)
RankFrom(lst, i, rank) ==
    IF i > Len(lst) THEN <<>>
    ELSE LET r == NextRank(lst, i, rank)
         IN  <<("rank" :> r) @@ lst[i]>> \o RankFrom(lst, i + 1, r)

AssignRanks(lst) == RankFrom(lst, 1, 1)

\* what _merge_rankings returns
MergeResult(as, ms) == AssignRanks(SortByKey(BuildCombined(as, ms)))

\* [c for c in combined if c['combined_score'] >= 3]
RECURSIVE ScoreFilter(_)
ScoreFilter(lst) ==
    IF lst = <<>> THEN <<>>
    ELSE (IF Head(lst).combined_score >= 3 THEN <<Head(lst)>> ELSE <<>>)
         \o ScoreFilter(Tail(lst))


-----------------------------------------------------------------------------
(* Runs of the merge on enumerated inputs *)

WeiZhang == <<"W","e","i"," ","Z","h","a","n","g">>
WeiZhang0001 == WeiZhang \o <<" ","0","0","0","1">>
LiNa == <<"L","i"," ","N","a">>
ETH == <<"E","T","H">>

AuthorNames == { WeiZhang, WeiZhang0001, LiNa }
MemberNames == { WeiZhang, LiNa }

\* an author record of authors.json
Author(name, conferences, total, badges_functional, badges_reproducible) ==
    [name |-> name,
     affiliation |-> <<>>,
     conferences |-> conferences,
     years |-> [kind |-> "list", items |-> <<2021, 2023>>],
     total |-> total,
     total_papers |-> total + 1,
     artifact_rate |-> 50,
     badges_available |-> total,
     badges_functional |-> badges_functional,
     badges_reproducible |-> badges_reproducible]

\* a member record of ae_members.json
Member(name, conferences, total_memberships, chair_count) ==
    [name |-> name,
     affiliation |-> ETH,
     conferences |-> conferences,
     years |-> (2022 :> total_memberships),
     total_memberships |-> total_memberships,
     chair_count |-> chair_count]

AuthorChoices ==
    { Author(n, c, p[1], p[2], p[3]) :
        n \in AuthorNames,
        c \in { {"A", "B"}, {"C"} },
        p \in { <<0, 1, 1>>, <<3, 0, 0>> } }

MemberChoices ==
    { Member(n, p[1], p[2], p[3]) :
        n \in MemberNames,
        p \in { <<{"A"}, 1, 0>>, <<{"C"}, 2, 1>> } }

ListsOf(S, n) == UNION { [1..k -> S] : k \in 0..n }

Letter(i) == <<LC[i]>>

\* six authors whose scores are 5, 10, 7, 5, 10, 5, and no member
RankScenario ==
    << << Author(Letter(6), {}, 5, 0, 0), Author(Letter(2), {}, 8, 1, 1),
          Author(Letter(3), {}, 7, 0, 0), Author(Letter(4), {}, 3, 2, 0),
          Author(Letter(1), {}, 10, 0, 0), Author(Letter(5), {}, 5, 0, 0) >>,
       <<>> >>

\* two members of one key, the second with more memberships, one author
CollisionScenario ==
    << << Author(WeiZhang0001, {"A"}, 1, 0, 0) >>,
       << Member(WeiZhang, {"A"}, 1, 1), Member(Lower(WeiZhang), {"C"}, 2, 0) >> >>

\* the scoring example: one author and the member it absorbs
ScoringScenario ==
    << << Author(LiNa, {"A"}, 2, 1, 1) >>, << Member(LiNa, {"A"}, 1, 1) >> >>

\* records of the two files with optional fields missing: a member with
\* no counts, without chair_count, without total_memberships, each with
\* an author of its key; a bare member and a bare author of different
\* keys; an author with artifact_count only and a full member of its key
SparseScenarios ==
    { << << [name |-> LiNa] >>, << [name |-> LiNa] >> >>,
      << << Author(LiNa, {"A"}, 2, 1, 1) >>,
         << [name |-> LiNa, conferences |-> {"A"},
             total_memberships |-> 1] >> >>,
      << << Author(LiNa, {"A"}, 2, 1, 1) >>,
         << [name |-> LiNa, chair_count |-> 1] >> >>,
      << << [name |-> WeiZhang] >>, << [name |-> LiNa] >> >>,
      << << [name |-> LiNa, artifact_count |-> 2] >>,
         << Member(LiNa, {"A"}, 1, 1) >> >> }

MergeInputs ==
    (ListsOf(AuthorChoices, MaxAuthors) \X ListsOf(MemberChoices, MaxMembers))
        \cup { RankScenario, CollisionScenario, ScoringScenario }
        \cup SparseScenarios

\* which of the two input files are absent
AbsentChoices ==
    SUBSET {"authors.json", "ae_members.json"}

\* _load_json(name): [] when the file does not exist
LoadJson(file) == IF file = <<>> THEN <<>> ELSE file[1]

\* the summary written to combined_summary.yml
Summary(lst) ==
    [combined_total |-> Len(lst),
     both_artifacts_and_ae |->
        Cardinality({ i \in DOMAIN lst :
                        lst[i].artifacts > 0 /\ lst[i].ae_memberships > 0 }),
     top_combined_score |->
        IF lst # <<>> THEN lst[1].combined_score ELSE 0]

MergeInit ==
    /\ \E inp \in MergeInputs, absent \in AbsentChoices :
           /\ authors_json =
                 IF "authors.json" \in absent THEN <<>> ELSE <<inp[1]>>
           /\ ae_members_json =
                 IF "ae_members.json" \in absent THEN <<>> ELSE <<inp[2]>>
    /\ rankings_json = <<>>
    /\ summary_yml = <<>>
    /\ authors = <<>>
    /\ ae_members = <<>>
    /\ built = <<>>
    /\ combined = <<>>
    /\ filtered = <<>>
    /\ mpc = "load"
    /\ NormIdle
    /\ SchedIdle
    /\ EnrichIdle
    /\ FuzzyIdle
    /\ CacheIdle

\* generate_combined_rankings: the two calls of _load_json
LoadInputs ==
    /\ mpc = "load"
    /\ authors' = LoadJson(authors_json)
    /\ ae_members' = LoadJson(ae_members_json)
    /\ mpc' = "start"
    /\ UNCHANGED <<built, combined, filtered, authors_json, ae_members_json,
                   rankings_json, summary_yml, NotMerge>>

\* combined = _merge_rankings(authors, ae_members)
MergeRankings ==
    /\ mpc = "start"
    /\ IF MergeRaises(authors, ae_members)
       THEN /\ mpc' = "error"
            /\ UNCHANGED <<built, combined>>
       ELSE /\ built' = BuildCombined(authors, ae_members)
            /\ combined' = AssignRanks(SortByKey(built'))
            /\ mpc' = "merged"
    /\ UNCHANGED <<authors, ae_members, filtered, authors_json,
                   ae_members_json, rankings_json, summary_yml, NotMerge>>

\* generate_combined_rankings: keep combined_score >= 3, then re-rank
FilterRerank ==
    /\ mpc = "merged"
    /\ filtered' = AssignRanks(ScoreFilter(combined))
    /\ mpc' = "filtered"
    /\ UNCHANGED <<authors, ae_members, built, combined, authors_json,
                   ae_members_json, rankings_json, summary_yml, NotMerge>>

\* generate_combined_rankings: the JSON file and the summary YAML
WriteRankings ==
    /\ mpc = "filtered"
    /\ rankings_json' = <<filtered>>
    /\ summary_yml' = <<Summary(filtered)>>
    /\ mpc' = "written"
    /\ UNCHANGED <<authors, ae_members, built, combined, filtered,
                   authors_json, ae_members_json, NotMerge>>

MergeNext == LoadInputs \/ MergeRankings \/ FilterRerank \/ WriteRankings

SpecMerge == MergeInit /\ [][MergeNext]_vars

-----------------------------------------------------------------------------
(* should_search_author *)

\* Exponential backoff configuration (in days)
BACKOFF_DEFAULT == 1
BACKOFF_MULTIPLIER == 2
BACKOFF_MAX == 30
\* seconds in a day
DAY == 86400

Min(a, b) == IF a <= b THEN a ELSE b

\* (mutant) the backoff without its cap
BackoffDays_NoCap(attempt_count) ==
    BACKOFF_DEFAULT * (BACKOFF_MULTIPLIER ^ attempt_count)

\* backoff_days
BackoffDays(attempt_count) ==
    Min(BACKOFF_DEFAULT * (BACKOFF_MULTIPLIER ^ attempt_count), BACKOFF_MAX)

\* (mutant) eligible only after the backoff, not at its end
BackoffExpired_Strict(time_since_search, backoff_seconds) ==
    time_since_search > backoff_seconds

\* time_since_search >= backoff_seconds
BackoffExpired(time_since_search, backoff_seconds) ==
    time_since_search >= backoff_seconds

\* should_search_author(author_name, history) at time `t`.  The reason
\* keeps the number its text carries: the backoff in days, or the whole
\* hours left (0 for the two constant reasons).
ShouldSearchAuthor(author_name, hist, t) ==
    IF author_name \notin DOMAIN hist
    THEN [search |-> TRUE, reason |-> "new_author", n |-> 0]
    ELSE LET entry == hist[author_name]
             found == Get(entry, "found", FALSE)
             last_search == Get(entry, "last_search_ts", 0)
             attempt_count == Get(entry, "attempt_count", 0)
             backoff_days == BackoffDays(attempt_count)
             backoff_seconds == backoff_days * DAY
             time_since_search == t - last_search
         IN  IF found
             THEN [search |-> FALSE, reason |-> "already_found", n |-> 0]
             ELSE IF BackoffExpired(time_since_search, backoff_seconds)
             THEN [search |-> TRUE, reason |-> "backoff_expired",
                   n |-> backoff_days]
             ELSE [search |-> FALSE, reason |-> "backoff_active",
                   n |-> (backoff_seconds - time_since_search) \div 3600]

-----------------------------------------------------------------------------
(* Calls of should_search_author on enumerated histories *)

QName == <<"L","i"," ","N","a">>

\* the history entries a run writes: found, attempt_count >= 1, a time
HistoryEntry(found, attempt_count, last_search_ts) ==
    [found |-> found, attempt_count |-> attempt_count,
     last_search_ts |-> last_search_ts]

\* the seconds around each whole number of days
ElapsedChoices ==
    { d * DAY + e : d \in 0..MaxElapsedDays, e \in {0 - 1, 0, 1} } \ {0 - 1}

LastSearchChoices == { 0, 20000 * DAY + 4711 }

SchedInit ==
    /\ q_name = QName
    /\ \E last \in LastSearchChoices, el \in ElapsedChoices :
          /\ q_now = last + el
          /\ \/ q_history = <<>>
             \/ \E f \in BOOLEAN, n \in 0..MaxAttemptCount :
                   q_history = (QName :> HistoryEntry(f, n, last))
    /\ q_res = <<>>
    /\ q_res_next = <<>>
    /\ qpc = "ask"
    /\ NormIdle
    /\ MergeIdle
    /\ EnrichIdle
    /\ FuzzyIdle
    /\ CacheIdle

\* should_search, reason = should_search_author(name, history)
Ask ==
    /\ qpc = "ask"
    /\ q_res' = ShouldSearchAuthor(q_name, q_history, q_now)
    /\ qpc' = "asked"
    /\ UNCHANGED <<q_name, q_history, q_now, q_res_next, NotSched>>

\* the same question about the same author after one more failed search
\* at the same last_search_ts: attempt_count one larger
AskNext ==
    /\ qpc = "asked"
    /\ q_name \in DOMAIN q_history
    /\ q_res_next' = ShouldSearchAuthor(q_name,
          [q_history EXCEPT ![q_name].attempt_count = @ + 1], q_now)
    /\ qpc' = "asked_next"
    /\ UNCHANGED <<q_name, q_history, q_now, q_res, NotSched>>

SchedNext == Ask \/ AskNext

SpecSched == SchedInit /\ [][SchedNext]_vars

-----------------------------------------------------------------------------
(* The keyed cache of the DBLP enricher.  A value that may be None is   *)
(* <<>> for None and <<v>> for the value v.                              *)

CACHE_TTL == 86400 * 90

\* _cache_path: one file per namespace and key (the sha256 of the key
\* names the file; distinct keys of the model have distinct hashes)
CachePath(key, namespace) == <<namespace, key>>

\* what a cache file holds when it is not {"ts": ..., "body": ...} or
\* an object with one of the two keys missing: bytes that are no UTF-8,
\* text that is no JSON, JSON that is no object (a list, a number,
\* null), an object whose ts is no number
CorruptKinds == {"not_utf8", "not_json", "not_object", "ts_not_number"}

\* _read_cache(key, ttl, namespace) raises: UnicodeDecodeError from
\* json.load, TypeError from entry['ts'] or from time.time() -
\* entry['ts']; the except clause names JSONDecodeError, KeyError and
\* OSError only
ReadCacheRaises(store, key, namespace) ==
    LET path == CachePath(key, namespace)
    IN  /\ path \in DOMAIN store
        /\ "corrupt" \in DOMAIN store[path]
        /\ store[path].corrupt \in {"not_utf8", "not_object", "ts_not_number"}

\* _read_cache(key, ttl, namespace) at time `t` when it does not raise:
\* the body if fresh; None after a JSONDecodeError or a KeyError
ReadCache(store, key, ttl, namespace, t) ==
    LET path == CachePath(key, namespace)
    IN  IF path \notin DOMAIN store THEN <<>>
        ELSE LET entry == store[path]
             IN  IF "corrupt" \in DOMAIN entry THEN <<>>
                 ELSE IF "ts" \notin DOMAIN entry THEN <<>>
                 ELSE IF t - entry.ts < ttl
                 THEN IF "body" \in DOMAIN entry THEN <<entry.body>>
                      ELSE <<>>
                 ELSE <<>>

\* _write_cache(key, body, namespace) at time `t`
WriteCache(store, key, body, namespace, t) ==
    LET path == CachePath(key, namespace)
    IN  (path :> [ts |-> t, body |-> body]) @@ store

-----------------------------------------------------------------------------
(* The two DBLP lookups.  What the remote site answers is `reply`.          *)

\* the PID the DBLP search API lists for a clean name
DblpPid(clean_name) ==
    <<"9", "1", "/">> \o SelectSeq(clean_name, LAMBDA c : IsWord(c))

\* re.sub(r'\s+\d{4}$', '', author_name).strip()
CleanName(author_name) == Strip(StripDblpSuffix(author_name))

StrSearch == <<"s", "e", "a", "r", "c", "h", ":">>
StrAffil == <<"a", "f", "f", "i", "l", ":">>

\* search_dblp_author(author_name, session): the PID or None, the cache
\* afterwards and the number of requests sent.  reply is "error" (a
\* RequestException), "no_hits" or "hit".
SearchDblpAuthor(author_name, store, t, reply) ==
    LET clean_name == CleanName(author_name)
        cache_key == StrSearch \o clean_name
        cached == ReadCache(store, cache_key, CACHE_TTL, "dblp_author", t)
        pid == DblpPid(clean_name)
    IN  IF cached # <<>>
        THEN [pid |-> IF cached[1] # <<>> THEN cached ELSE <<>>,
              store |-> store, requests |-> 0]
        ELSE CASE reply = "error" ->
                    [pid |-> <<>>, store |-> store, requests |-> 1]
               [] reply = "no_hits" ->
                    [pid |-> <<>>,
                     store |-> WriteCache(store, cache_key, <<>>,
                                          "dblp_author", t),
                     requests |-> 1]
               [] reply = "hit" ->
                    [pid |-> <<pid>>,
                     store |-> WriteCache(store, cache_key, pid,
                                          "dblp_author", t),
                     requests |-> 1]

\* fetch_affiliation_from_dblp_page(pid, session): the affiliation or
\* None.  reply is <<"error">>, <<"no_affiliation">> or the affiliation
\* on the page.
FetchAffiliationFromDblpPage(pid, store, t, reply) ==
    LET cache_key == StrAffil \o pid
        cached == ReadCache(store, cache_key, CACHE_TTL, "dblp_affil", t)
    IN  IF cached # <<>>
        THEN [affil |-> IF cached[1] # <<>> THEN cached ELSE <<>>,
              store |-> store, requests |-> 0]
        ELSE CASE reply = <<"error">> ->
                    [affil |-> <<>>, store |-> store, requests |-> 1]
               [] reply = <<"no_affiliation">> ->
                    [affil |-> <<>>,
                     store |-> WriteCache(store, cache_key, <<>>,
                                          "dblp_affil", t),
                     requests |-> 1]
               [] OTHER ->
                    [affil |-> <<reply>>,
                     store |-> WriteCache(store, cache_key, reply,
                                          "dblp_affil", t),
                     requests |-> 1]

-----------------------------------------------------------------------------
(* The CSRankings matcher (enrich_affiliations_csrankings.py) *)

\* str.isalnum() on one character
IsAlnum(c) == IsAsciiUpper(c) \/ IsAsciiLower(c) \/ IsDigit(c)
              \/ c \in {"E_acute", "e_acute"}

\* normalize_name(name)
CsrNormalizeName(name) ==
    Strip(Lower(SelectSeq(name, LAMBDA c : IsAlnum(c) \/ IsSpace(c))))

\* str.split(): the whitespace-separated tokens
RECURSIVE SplitFrom(_, _, _, _)
SplitFrom(s, i, cur, acc) ==
    IF i > Len(s)
    THEN IF cur = <<>> THEN acc ELSE Append(acc, cur)
    ELSE IF IsSpace(s[i])
    THEN SplitFrom(s, i + 1, <<>>,
                   IF cur = <<>> THEN acc ELSE Append(acc, cur))
    ELSE SplitFrom(s, i + 1, Append(cur, s[i]), acc)

Split(s) == SplitFrom(s, 1, <<>>, <<>>)

\* str.startswith
StartsWith(s, prefix) ==
    Len(prefix) <= Len(s) /\ SubSeq(s, 1, Len(prefix)) = prefix

\* (mutant) the matcher without the surname gate
CsrFuzzyNameMatch_NoSurnameGate(author_name, csrankings_name) ==
    LET auth_norm == CsrNormalizeName(author_name)
        cs_norm == CsrNormalizeName(csrankings_name)
        auth_parts == Split(auth_norm)
        cs_parts == Split(cs_norm)
        auth_first == auth_parts[1]
        cs_first == cs_parts[1]
    IN  IF auth_norm = cs_norm THEN TRUE
        ELSE IF auth_parts = <<>> \/ cs_parts = <<>> THEN FALSE
        ELSE IF auth_first = cs_first THEN TRUE
        ELSE \/ Len(auth_first) = 1 /\ StartsWith(cs_first, auth_first)
             \/ Len(cs_first) = 1 /\ StartsWith(auth_first, cs_first)

\* fuzzy_name_match(author_name, csrankings_name) of the CSRankings
\* enricher
CsrFuzzyNameMatch(author_name, csrankings_name) ==
    LET auth_norm == CsrNormalizeName(author_name)
        cs_norm == CsrNormalizeName(csrankings_name)
        auth_parts == Split(auth_norm)
        cs_parts == Split(cs_norm)
        auth_first == auth_parts[1]
        cs_first == cs_parts[1]
    IN  IF auth_norm = cs_norm THEN TRUE
        ELSE IF auth_parts = <<>> \/ cs_parts = <<>> THEN FALSE
        ELSE IF auth_parts[Len(auth_parts)] # cs_parts[Len(cs_parts)]
        THEN FALSE
        ELSE IF auth_first = cs_first THEN TRUE
        ELSE \/ Len(auth_first) = 1 /\ StartsWith(cs_first, auth_first)
             \/ Len(cs_first) = 1 /\ StartsWith(auth_first, cs_first)

-----------------------------------------------------------------------------
(* Calls of the CSRankings fuzzy_name_match on enumerated names *)

NameTokens ==
    { <<"J", "o", "h", "n">>, <<"J", "a", "n", "e">>, <<"J", ".">>,
      <<"S", "m", "i", "t", "h">>, <<"s", "m", "i", "t", "h">>,
      <<"D", "o", "e">> }

RECURSIVE JoinNames(_)
JoinNames(tokens) ==
    IF tokens = <<>> THEN <<>>
    ELSE IF Len(tokens) = 1 THEN tokens[1]
    ELSE tokens[1] \o <<" ">> \o JoinNames(Tail(tokens))

\* the names of up to MaxNameTokens tokens
FuzzyNames ==
    { JoinNames(ts) : ts \in ListsOf(NameTokens, MaxNameTokens) }

FuzzyInit ==
    /\ f_author \in FuzzyNames
    /\ f_csrankings \in FuzzyNames
    /\ f_res = FALSE
    /\ fpc = "call"
    /\ NormIdle
    /\ MergeIdle
    /\ SchedIdle
    /\ EnrichIdle
    /\ CacheIdle

\* fuzzy_name_match(author_name, record['name'])
FuzzyMatch ==
    /\ fpc = "call"
    /\ f_res' = CsrFuzzyNameMatch(f_author, f_csrankings)
    /\ fpc' = "returned"
    /\ UNCHANGED <<f_author, f_csrankings, NotFuzzy>>

FuzzyNext == FuzzyMatch

SpecFuzzy == FuzzyInit /\ [][FuzzyNext]_vars

-----------------------------------------------------------------------------
(* The index of the CSRankings roster *)

StrLastname == <<"l", "a", "s", "t", "n", "a", "m", "e", ":">>

\* name_index[key].append(record)
IndexAppend(index, key, record) ==
    IF key \in DOMAIN index
    THEN [index EXCEPT ![key] = Append(@, record)]
    ELSE (key :> <<record>>) @@ index

\* load_csrankings: the rows of the CSV file from row i on, added to
\* the index
RECURSIVE LoadCsrankingsFrom(_, _, _)
LoadCsrankingsFrom(rows, i, name_index) ==
    IF i > Len(rows) THEN name_index
    ELSE LET name == Strip(Get(rows[i], "name", <<>>))
             affiliation == Strip(Get(rows[i], "affiliation", <<>>))
             record == [name |-> name, affiliation |-> affiliation]
             parts == Split(name)
             by_name == IndexAppend(name_index, CsrNormalizeName(name),
                                    record)
             by_last == IF Len(parts) >= 2
                        THEN IndexAppend(by_name,
                               StrLastname \o Lower(parts[Len(parts)]),
                               record)
                        ELSE by_name
         IN  IF name = <<>> \/ affiliation = <<>>
             THEN LoadCsrankingsFrom(rows, i + 1, name_index)
             ELSE LoadCsrankingsFrom(rows, i + 1, by_last)

LoadCsrankings(rows) == LoadCsrankingsFrom(rows, 1, <<>>)

\* the first record of `candidates`, from position i on, that
\* fuzzy_name_match accepts: <<its affiliation>>, or <<>> for None
RECURSIVE FirstMatchFrom(_, _, _)
FirstMatchFrom(author_name, candidates, i) ==
    IF i > Len(candidates) THEN <<>>
    ELSE IF CsrFuzzyNameMatch(author_name, candidates[i].name)
    THEN <<candidates[i].affiliation>>
    ELSE FirstMatchFrom(author_name, candidates, i + 1)

\* match_author_to_csrankings(author_name, name_index)
MatchAuthorToCsrankings(author_name, name_index) ==
    LET normalized == CsrNormalizeName(author_name)
        exact == Get(name_index, normalized, <<>>)
        parts == Split(author_name)
        candidates ==
            IF exact # <<>> THEN exact
            ELSE IF Len(parts) >= 2
            THEN Get(name_index,
                     StrLastname \o Lower(parts[Len(parts)]), <<>>)
            ELSE <<>>
    IN  FirstMatchFrom(author_name, candidates, 1)

-----------------------------------------------------------------------------
(* One run of the DBLP enricher: main and enrich_affiliations *)

Unknown == <<"U", "n", "k", "n", "o", "w", "n">>

\* d[k] = v on a dict
SetKey(d, k, v) == (k :> v) @@ d

\* (mutant) the skip test turned round
HasGoodAffiliation_Inverted(affiliation) ==
    ~ (/\ affiliation # <<>>
       /\ affiliation \notin {Unknown, <<>>}
       /\ ~ StartsWith(affiliation, <<"_">>))

\* affiliation and affiliation not in ['Unknown', ''] and
\* not affiliation.startswith('_')
HasGoodAffiliation(affiliation) ==
    /\ affiliation # <<>>
    /\ affiliation \notin {Unknown, <<>>}
    /\ ~ StartsWith(affiliation, <<"_">>)

\* the loop that categorises the authors, from author i on: to_search
\* holds (priority, name, author) and enriched_data the authors skipped
RECURSIVE CategorizeFrom(_, _, _, _, _, _)
CategorizeFrom(data, hist, t, i, tosearch, enriched) ==
    IF i > Len(data)
    THEN [to_search |-> tosearch, enriched_data |-> enriched]
    ELSE LET author == data[i]
             name == Get(author, "name", <<>>)
             affiliation == Get(author, "affiliation", <<>>)
             decision == ShouldSearchAuthor(name, hist, t)
             priority == IF decision.reason = "new_author" THEN 0 ELSE 1
         IN  IF HasGoodAffiliation(affiliation)
             THEN CategorizeFrom(data, hist, t, i + 1, tosearch,
                                 Append(enriched, i))
             ELSE IF decision.search
             THEN CategorizeFrom(data, hist, t, i + 1,
                      Append(tosearch, [priority |-> priority,
                                        name |-> name, author |-> i]),
                      enriched)
             ELSE CategorizeFrom(data, hist, t, i + 1, tosearch,
                                 Append(enriched, i))

\* to_search.sort(key=lambda x: x[0]): a stable sort
InsertByPriority(x, sorted) ==
    LET n == Cardinality({ j \in DOMAIN sorted :
                             sorted[j].priority <= x.priority })
    IN  SubSeq(sorted, 1, n) \o <<x>> \o SubSeq(sorted, n + 1, Len(sorted))

\* (mutant) the list left in input order
SortByPriority_Unsorted(s) == s

RECURSIVE SortByPriority(_)
SortByPriority(s) ==
    IF s = <<>> THEN <<>>
    ELSE InsertByPriority(s[Len(s)],
                          SortByPriority(SubSeq(s, 1, Len(s) - 1)))

\* max_searches and stats['searches_performed'] >= max_searches
CapReached(cap, performed) ==
    cap # <<>> /\ cap[1] # 0 /\ performed >= cap[1]

\* (mutant) only a search that found an affiliation is recorded
RecordAttempt_OnlyFound(hist, name, found_affil, t) ==
    IF found_affil
    THEN (name :> [attempt_count |-> Get(Get(hist, name, <<>>),
                                         "attempt_count", 0) + 1,
                   found |-> TRUE, last_search_ts |-> t]) @@ hist
    ELSE hist

\* (mutant) the attempt count starts again at 1 with every search
RecordAttempt_ResetCount(hist, name, found_affil, t) ==
    (name :> [attempt_count |-> 1, found |-> found_affil,
              last_search_ts |-> t]) @@ hist

\* lines 368-373: the history after a search of `name` at time t
RecordAttempt(hist, name, found_affil, t) ==
    LET h1 == IF name \in DOMAIN hist THEN hist
              ELSE (name :> [attempt_count |-> 0]) @@ hist
        e1 == SetKey(h1[name], "last_search_ts", t)
        e2 == SetKey(e1, "found", found_affil)
        e3 == SetKey(e2, "attempt_count",
                     Get(e2, "attempt_count", 0) + 1)
    IN  [h1 EXCEPT ![name] = e3]

\* (mutant) the last author of the list is lost
Deref_DropsLast(refs, data) ==
    [k \in 1..(Len(refs) - 1) |-> data[refs[k]]]

\* the authors a list of references stands for
Deref(refs, data) == [k \in 1..Len(refs) |-> data[refs[k]]]

-----------------------------------------------------------------------------
(* Inputs of the enricher runs *)

MIT == <<"M", "I", "T">>
PKU == <<"P", "K", "U">>
Placeholder == <<"_", "x">>

AuthorRecord(name, affiliation) ==
    [name |-> name, affiliation |-> affiliation]

\* the author dicts of authors.json: no affiliation yet, a placeholder
\* left by the scraper, an affiliation, the key missing, "Unknown"
AuthorPool ==
    { AuthorRecord(WeiZhang, <<>>),
      AuthorRecord(WeiZhang0001, Placeholder),
      AuthorRecord(LiNa, MIT),
      [name |-> LiNa],
      AuthorRecord(LiNa, Unknown) }

\* time.time() when the run starts
EnrichNow == 3 * DAY

\* what earlier runs left in the history file: nothing; one failed
\* search whose backoff is over; a found author; three failed searches
\* and the backoff still running
HistoryChoices ==
    { <<>>,
      (WeiZhang :> HistoryEntry(FALSE, 1, 0)),
      (WeiZhang :> HistoryEntry(TRUE, 1, 0)),
      (WeiZhang :> HistoryEntry(FALSE, 3, 0)) }

\* what earlier runs left in the cache directory: nothing; the answer
\* of a search at time 0 that found no DBLP author called Li Na
CacheChoices ==
    { <<>>,
      WriteCache(<<>>, StrSearch \o LiNa, <<>>, "dblp_author", 0) }

\* --max_searches and --max_authors
CapChoices == { <<>> } \cup { <<k>> : k \in 0..MaxCap }

\* what the DBLP search API and the person page answer
SearchReplies == { "error", "no_hits", "hit" }
PageReplies == { <<"error">>, <<"no_affiliation">>, ETH }

\* the rows of csrankings.csv
CSRankingsRows ==
    << [name |-> WeiZhang, affiliation |-> ETH],
       [name |-> <<"L", ".", " ", "N", "a">>, affiliation |-> PKU],
       [name |-> <<"L", "i", " ", "N", "a">>, affiliation |-> <<>>] >>

NameIndex == LoadCsrankings(CSRankingsRows)

EnrichInit ==
    /\ authors_file \in
          { <<>> } \cup { <<l>> : l \in ListsOf(AuthorPool, MaxFileAuthors) }
    /\ hist_file \in HistoryChoices
    /\ cache \in CacheChoices
    /\ clock = EnrichNow
    /\ DblpIdle
    /\ CsrIdle
    /\ NormIdle
    /\ MergeIdle
    /\ SchedIdle
    /\ FuzzyIdle
    /\ CacheIdle

-----------------------------------------------------------------------------
(* The actions of the DBLP enricher *)

\* main up to the search loop of enrich_affiliations: the history is
\* removed on --clear_history, the authors are loaded and categorised
DblpStart ==
    /\ epc = "idle"
    /\ csr_pc = "idle"
    /\ \E clr \in BOOLEAN, cap \in CapChoices :
         LET hf == IF clr THEN <<>> ELSE hist_file
             data == authors_file[1]
             cat == CategorizeFrom(data, hf, clock, 1, <<>>, <<>>)
             sorted == SortByPriority(cat.to_search)
         IN  /\ clear_history' = clr
             /\ max_searches' = cap
             /\ hist_file' = hf
             /\ IF authors_file = <<>>
                THEN /\ epc' = "error"
                     /\ UNCHANGED <<authors_in, authors_data, hist_loaded,
                                    history, to_search, pos, enriched_data,
                                    returned>>
                ELSE /\ authors_in' = data
                     /\ authors_data' = data
                     /\ hist_loaded' = hf
                     /\ history' = hf
                     /\ to_search' = sorted
                     /\ pos' = 1
                     /\ enriched_data' = cat.enriched_data
                     /\ IF sorted = <<>>
                        THEN epc' = "done" /\ returned' = data
                        ELSE epc' = "searching" /\ returned' = <<>>
    /\ UNCHANGED <<authors_file, cache, clock, searches_performed,
                   attempted, csrVars, NotEnrich>>

\* one iteration of `for priority, name, author in to_search`
DblpSearchStep ==
    /\ epc = "searching"
    /\ pos <= Len(to_search)
    /\ LET name == to_search[pos].name
           author == to_search[pos].author
       IN  IF CapReached(max_searches, searches_performed)
           THEN /\ enriched_data' = Append(enriched_data, author)
                /\ pos' = pos + 1
                /\ UNCHANGED <<cache, clock, authors_data, history,
                               searches_performed, attempted>>
           ELSE \E search_reply \in SearchReplies,
                   page_reply \in PageReplies :
                  LET s == SearchDblpAuthor(name, cache, clock,
                                            search_reply)
                      f == IF s.pid # <<>>
                           THEN FetchAffiliationFromDblpPage(s.pid[1],
                                    s.store, clock, page_reply)
                           ELSE [affil |-> <<>>, store |-> s.store,
                                 requests |-> 0]
                      found_affil == f.affil # <<>>
                      failure ==
                        IF s.requests = 1 /\ search_reply = "error"
                        THEN "search"
                        ELSE IF f.requests = 1 /\ page_reply = <<"error">>
                        THEN "fetch"
                        ELSE "none"
                  IN  /\ searches_performed' = searches_performed + 1
                      /\ authors_data' =
                           IF found_affil
                           THEN [authors_data EXCEPT ![author] =
                                   SetKey(@, "affiliation", f.affil[1])]
                           ELSE authors_data
                      /\ history' = RecordAttempt(history, name,
                                                  found_affil, clock)
                      /\ cache' = f.store
                      /\ clock' = clock + 1
                      /\ attempted' = Append(attempted,
                            [author |-> author, name |-> name,
                             found |-> found_affil,
                             requests |-> s.requests + f.requests,
                             failure |-> failure])
                      /\ enriched_data' = Append(enriched_data, author)
                      /\ pos' = pos + 1
    /\ UNCHANGED <<authors_file, hist_file, epc, clear_history,
                   max_searches, authors_in, hist_loaded, to_search,
                   returned, csrVars, NotEnrich>>

\* after the loop: save_search_history, and the output file unless
\* --dry_run made output_path None
DblpFinish ==
    /\ epc = "searching"
    /\ pos > Len(to_search)
    /\ \E output_path \in { <<>>, <<"authors.json">> } :
         LET out == Deref(enriched_data, authors_data)
         IN  /\ hist_file' = history
             /\ authors_file' = IF output_path # <<>> THEN <<out>>
                                ELSE authors_file
             /\ returned' = out
             /\ epc' = "done"
    /\ UNCHANGED <<cache, clock, clear_history, max_searches, authors_in,
                   authors_data, hist_loaded, history, to_search, pos,
                   enriched_data, searches_performed, attempted, csrVars,
                   NotEnrich>>

-----------------------------------------------------------------------------
(* The action of the CSRankings enricher *)

\* not author.get('affiliation') or author['affiliation'] == 'Unknown'
MissingAffiliation(author) ==
    LET affiliation == Get(author, "affiliation", <<>>)
    IN  affiliation = <<>> \/ affiliation = Unknown

\* missing_affiliation[:max_authors] if max_authors
Truncate(missing, max_authors) ==
    IF max_authors # <<>> /\ max_authors[1] # 0
    THEN SubSeq(missing, 1, Min(max_authors[1], Len(missing)))
    ELSE missing

\* enrich_affiliations(authors_file, output_file, name_index,
\* max_authors, dry_run)
CsrEnrich ==
    /\ csr_pc = "idle"
    /\ epc \in {"idle", "done"}
    /\ \E max_authors \in CapChoices, dry_run \in BOOLEAN :
         IF authors_file = <<>>
         THEN /\ csr_pc' = "error"
              /\ UNCHANGED <<csr_missing, csr_authors, csr_out>>
         ELSE LET authors_list == authors_file[1]
                  missing == SelectSeq(
                      [i \in 1..Len(authors_list) |-> i],
                      LAMBDA i : MissingAffiliation(authors_list[i]))
                  cut == Truncate(missing, max_authors)
                  enriched ==
                    [i \in 1..Len(authors_list) |->
                       LET affiliation == MatchAuthorToCsrankings(
                               Get(authors_list[i], "name", <<>>),
                               NameIndex)
                       IN  IF i \in Range(cut) /\ affiliation # <<>>
                           THEN SetKey(authors_list[i], "affiliation",
                                       affiliation[1])
                           ELSE authors_list[i]]
              IN  /\ csr_missing' = cut
                  /\ csr_authors' = enriched
                  /\ csr_out' = IF dry_run THEN csr_out ELSE <<enriched>>
                  /\ csr_pc' = "done"
    /\ UNCHANGED <<diskVars, dblpVars, NotEnrich>>

EnrichNext == DblpStart \/ DblpSearchStep \/ DblpFinish \/ CsrEnrich

SpecEnrich == EnrichInit /\ [][EnrichNext]_vars

-----------------------------------------------------------------------------
(* Calls of _read_cache and _write_cache on a cache directory *)

MaxCacheTicks == 2

\* the two lookups of one author: key and namespace
CacheSlots ==
    { [key |-> StrSearch \o LiNa, namespace |-> "dblp_author"],
      [key |-> StrAffil \o DblpPid(LiNa), namespace |-> "dblp_affil"] }

CachePaths == { CachePath(sl.key, sl.namespace) : sl \in CacheSlots }

\* what a file of the cache directory holds: an entry written at time 0,
\* an object without ts, an object without body, or something corrupt
CacheFiles ==
    { [ts |-> 0, body |-> DblpPid(LiNa)],
      [body |-> DblpPid(LiNa)],
      [ts |-> 0] }
        \cup { [corrupt |-> k] : k \in CorruptKinds }

StoreChoices == UNION { [P -> CacheFiles] : P \in SUBSET CachePaths }

\* the bodies the lookups write: '' for a negative result, a PID, an
\* affiliation
CacheBodies == { <<>>, DblpPid(LiNa), ETH }

CacheInit ==
    /\ cache \in StoreChoices
    /\ clock \in { CACHE_TTL - 1, CACHE_TTL }
    /\ authors_file = <<>>
    /\ hist_file = <<>>
    /\ DblpIdle
    /\ CsrIdle
    /\ c_slot = <<>>
    /\ c_res = [raised |-> FALSE, value |-> <<>>]
    /\ cpc = "ready"
    /\ NormIdle
    /\ MergeIdle
    /\ SchedIdle
    /\ FuzzyIdle

\* cached = _read_cache(cache_key, ttl=CACHE_TTL, namespace=...)
CacheRead ==
    /\ cpc # "idle"
    /\ \E sl \in CacheSlots :
          /\ c_slot' = sl
          /\ c_res' =
                IF ReadCacheRaises(cache, sl.key, sl.namespace)
                THEN [raised |-> TRUE, value |-> <<>>]
                ELSE [raised |-> FALSE,
                      value |-> ReadCache(cache, sl.key, CACHE_TTL,
                                          sl.namespace, clock)]
    /\ cpc' = "read"
    /\ UNCHANGED <<cache, clock, NotCache>>

\* _write_cache(cache_key, body, namespace=...)
CacheWrite ==
    /\ cpc # "idle"
    /\ \E sl \in CacheSlots, body \in CacheBodies :
          /\ c_slot' = sl
          /\ cache' = WriteCache(cache, sl.key, body, sl.namespace, clock)
    /\ cpc' = "written"
    /\ UNCHANGED <<clock, c_res, NotCache>>

\* time passes between two calls
CacheTick ==
    /\ cpc # "idle"
    /\ clock < CACHE_TTL + MaxCacheTicks
    /\ clock' = clock + 1
    /\ cpc' = "ready"
    /\ UNCHANGED <<cache, c_slot, c_res, NotCache>>

CacheNext == CacheRead \/ CacheWrite \/ CacheTick

SpecCache == CacheInit /\ [][CacheNext]_vars

-----------------------------------------------------------------------------
(* Claims about the merge *)

Merged == mpc \in {"merged", "filtered"}

AuthorKey(i) == NormalizeName(authors[i].name)
MemberKey(j) == NormalizeName(ae_members[j].name)
MemberKeys == { MemberKey(j) : j \in DOMAIN ae_members }
AuthorsOfKey(k) == { i \in DOMAIN authors : AuthorKey(i) = k }

\* the member the index keeps for key k: the first one with the most
\* memberships
KeptMember(k) ==
    LET js == { j \in DOMAIN ae_members : MemberKey(j) = k }
        best == CHOOSE j \in js : \A h \in js :
                    \/ Get(ae_members[h], "total_memberships", 0)
                           < Get(ae_members[j], "total_memberships", 0)
                    \/ /\ Get(ae_members[h], "total_memberships", 0)
                           = Get(ae_members[j], "total_memberships", 0)
                       /\ j <= h
    IN  ae_members[best]

\* author i's entry carries committee data
Absorbs(i) == built[i].ae_memberships # 0 \/ built[i].chair_count # 0

OverlapWith(i, m) ==
    Cardinality(Get(authors[i], "conferences", {})
                   \cap Get(m, "conferences", {}))

TopOverlap(k) ==
    SetMax({ OverlapWith(i, KeptMember(k)) : i \in AuthorsOfKey(k) })

\* two or more authors share key k with a member and no author's overlap
\* is both positive and strictly the largest
TiedKey(k) ==
    /\ k \in MemberKeys
    /\ Cardinality(AuthorsOfKey(k)) >= 2
    /\ \/ TopOverlap(k) = 0
       \/ Cardinality({ i \in AuthorsOfKey(k) :
              OverlapWith(i, KeptMember(k)) = TopOverlap(k) }) >= 2

(* C1: for every normalised key shared by two or more author records and a *)
(* committee member, at most one of those authors' output entries absorbs  *)
(* the member's data; every other author entry of the key has              *)
(* ae_memberships = 0 and chair_count = 0.                                 *)
C1_AtMostOneAbsorbs ==
    Merged =>
        \A k \in MemberKeys :
            Cardinality({ i \in AuthorsOfKey(k) : Absorbs(i) }) <= 1

\* author i's overlap is positive and strictly the largest of its group
StrictlyBest(i, k) ==
    LET m == KeptMember(k)
    IN  /\ OverlapWith(i, m) > 0
        /\ \A j \in AuthorsOfKey(k) \ {i} :
               OverlapWith(i, m) > OverlapWith(j, m)

(* C15: for a key present in both the author groups and the member index:  *)
(* a single author of the key wins the member's data; among several        *)
(* authors of the key an author wins if and only if its conference         *)
(* overlap with the member is positive and strictly greater than that of   *)
(* every other author of the group, and otherwise no author wins.          *)
C15_WinnerRule ==
    Merged =>
        \A k \in MemberKeys :
            IF Cardinality(AuthorsOfKey(k)) = 1
            THEN \A i \in AuthorsOfKey(k) : Absorbs(i)
            ELSE \A i \in AuthorsOfKey(k) : Absorbs(i) <=> StrictlyBest(i, k)

(* C2: when two or more authors share a key with a member and their        *)
(* overlaps are tied for the top (or the top overlap is 0), no author      *)
(* entry of the key receives the member's data, and the member is in the   *)
(* output exactly once, standalone: artifacts = 0 and ae_memberships equal *)
(* to the member's total_memberships.                                      *)
C2_TieLeavesMemberStandalone ==
    Merged =>
        \A k \in MemberKeys : TiedKey(k) =>
            /\ \A i \in AuthorsOfKey(k) : ~Absorbs(i)
            /\ LET m == KeptMember(k)
                   own == { j \in DOMAIN combined :
                              /\ NormalizeName(combined[j].name) = k
                              /\ combined[j].ae_memberships # 0 }
               IN  /\ Cardinality(own) = 1
                   /\ \A j \in own :
                        /\ combined[j].name = m.name
                        /\ combined[j].artifacts = 0
                        /\ combined[j].ae_memberships = m.total_memberships
                        /\ combined[j].chair_count = m.chair_count

\* a merged run with a key whose two authors tie on a positive overlap
C2_Witness ==
    /\ mpc = "merged"
    /\ \E k \in MemberKeys : TiedKey(k) /\ TopOverlap(k) > 0

\* the order of the sort key, written out
InOrder(x, y) ==
    \/ x.combined_score > y.combined_score
    \/ /\ x.combined_score = y.combined_score
       /\ \/ x.artifacts > y.artifacts
          \/ x.artifacts = y.artifacts /\ ~StrLess(y.name, x.name)

SortedAndRanked(lst) ==
    /\ \A i \in 1..(Len(lst) - 1) : InOrder(lst[i], lst[i + 1])
    /\ lst # <<>> => lst[1].rank = 1
    /\ \A i \in 2..Len(lst) :
        /\ lst[i].combined_score < lst[i - 1].combined_score
              => lst[i].rank = i
        /\ lst[i].combined_score = lst[i - 1].combined_score
              => lst[i].rank = lst[i - 1].rank

ScoresOf(lst) == [i \in 1..Len(lst) |-> lst[i].combined_score]
RanksOf(lst) == [i \in 1..Len(lst) |-> lst[i].rank]

(* C7: the list _merge_rankings returns (and the list re-ranked after the  *)
(* filter) is sorted by combined_score descending, then artifacts          *)
(* descending, then name ascending; the first rank is 1, a strictly lower  *)
(* score takes its 1-based position as rank, an equal score its            *)
(* predecessor's rank; scores [10,10,7,5,5,5] rank [1,1,3,4,4,4].          *)
C7_SortedDenseRanks ==
    /\ Merged => SortedAndRanked(combined)
    /\ mpc = "filtered" => SortedAndRanked(filtered)
    /\ (Merged /\ ScoresOf(combined) = <<10, 10, 7, 5, 5, 5>>)
          => RanksOf(combined) = <<1, 1, 3, 4, 4, 4>>

\* the merge of the six authors whose scores are 10, 10, 7, 5, 5, 5
C7_Witness ==
    /\ mpc = "merged"
    /\ ScoresOf(combined) = <<10, 10, 7, 5, 5, 5>>
    /\ RanksOf(combined) = <<1, 1, 3, 4, 4, 4>>

ScoresRight(e) ==
    /\ e.artifact_score
          = e.artifacts + e.badges_functional + e.badges_reproducible
    /\ e.ae_score = 3 * e.ae_memberships + 2 * e.chair_count
    /\ e.combined_score = e.artifact_score + e.ae_score
    /\ e.artifact_score \in Nat
    /\ e.ae_score \in Nat

(* C8: every entry _build_entry builds has artifact_score = artifacts +    *)
(* badges_functional + badges_reproducible, ae_score = 3 * ae_memberships  *)
(* + 2 * chair_count, combined_score = artifact_score + ae_score, both     *)
(* sub-scores non-negative integers.                                       *)
C8_Scores ==
    /\ \A i \in DOMAIN built : ScoresRight(built[i])
    /\ \A i \in DOMAIN combined : ScoresRight(combined[i])
    /\ \A i \in DOMAIN filtered : ScoresRight(filtered[i])

\* the scoring example: 2 artifacts, 1 functional, 1 reproducible badge,
\* 1 membership, 1 chair role: scores 4, 5 and 9
C8_Witness ==
    /\ mpc = "merged"
    /\ \E i \in DOMAIN combined :
        /\ combined[i].artifacts = 2
        /\ combined[i].badges_functional = 1
        /\ combined[i].badges_reproducible = 1
        /\ combined[i].ae_memberships = 1
        /\ combined[i].chair_count = 1
        /\ combined[i].artifact_score = 4
        /\ combined[i].ae_score = 5
        /\ combined[i].combined_score = 9

-----------------------------------------------------------------------------
(* Claims about should_search_author *)

QEntry == q_history[q_name]
QElapsed == q_now - QEntry.last_search_ts
\* min(1 day * 2^n, 30 days), in seconds
ClaimedWait(n) == Min(86400 * (2 ^ n), 30 * 86400)

(* C4: a name absent from the history is eligible with reason "new" (the   *)
(* code's "new_author"); a name whose entry has found = false and          *)
(* attempt_count = n is eligible iff now - last_search_timestamp >=        *)
(* min(1 day * 2^n, 30 days).                                              *)
C4_Eligibility ==
    qpc \in {"asked", "asked_next"} =>
        /\ q_name \notin DOMAIN q_history
              => q_res.search /\ q_res.reason = "new_author"
        /\ (q_name \in DOMAIN q_history /\ ~QEntry.found)
              => (q_res.search <=> QElapsed >= ClaimedWait(QEntry.attempt_count))

\* an unsuccessful author at the cap (2^5 days > 30 days), asked exactly
\* 30 days after the last search: eligible
C4_Witness ==
    /\ qpc = "asked"
    /\ q_name \in DOMAIN q_history
    /\ ~QEntry.found
    /\ QEntry.attempt_count = 5
    /\ QElapsed = 30 * 86400
    /\ q_res.search

(* C5: for an unsuccessful author the wait before re-eligibility strictly  *)
(* increases with attempt_count while it is below the 30-day cap and       *)
(* equals the cap for every larger attempt_count: it never exceeds the cap *)
(* and never decreases.                                                    *)
C5_BackoffMonotone ==
    (qpc = "asked_next" /\ ~QEntry.found) =>
        LET n == QEntry.attempt_count
            eligible == QElapsed >= ClaimedWait(n)
            eligible_next == QElapsed >= ClaimedWait(n + 1)
        IN  /\ q_res.search = eligible
            /\ q_res_next.search = eligible_next
            /\ ClaimedWait(n) <= 30 * 86400
            /\ ClaimedWait(n) <= ClaimedWait(n + 1)
            /\ ClaimedWait(n) < 30 * 86400 => ClaimedWait(n) < ClaimedWait(n + 1)
            /\ ClaimedWait(n) = 30 * 86400 => ClaimedWait(n + 1) = 30 * 86400
            /\ q_res_next.search => q_res.search
            /\ q_res.search => q_res.n * 86400 = ClaimedWait(n)
            /\ q_res_next.search => q_res_next.n * 86400 = ClaimedWait(n + 1)

\* attempt_count 4 -> 5 crosses into the cap: 16 days, then 30 days; asked
\* after 20 days the author is eligible at 4 and not at 5
C5_Witness ==
    /\ qpc = "asked_next"
    /\ ~QEntry.found
    /\ QEntry.attempt_count = 4
    /\ QElapsed = 20 * 86400
    /\ q_res.search /\ q_res.n = 16
    /\ ~q_res_next.search

-----------------------------------------------------------------------------
(* Claims about the enricher runs *)

\* the history h records found = true for name n
IsFoundIn(h, n) == n \in DOMAIN h /\ Get(h[n], "found", FALSE)

\* the affiliation field of an author dict ('' when the key is missing)
AffiliationOf(author) == Get(author, "affiliation", <<>>)

\* the step is the removal of the history file by --clear_history
IsReset == epc = "idle" /\ clear_history'

(***************************************************************************)
(* C3: found is terminal.  Once the history records found = true for a     *)
(* name, no search attempt is made for that name, in this run or a later   *)
(* one, and its entry stays as it is, in the dict of the run and in the    *)
(* history file, unless the history is explicitly reset.                   *)
(***************************************************************************)
C3_FoundIsTerminal ==
    [][ /\ \A n \in DOMAIN history :
              (epc = "searching" /\ IsFoundIn(history, n))
                  => /\ n \in DOMAIN history'
                     /\ history'[n] = history[n]
        /\ \A n \in DOMAIN hist_file :
              (IsFoundIn(hist_file, n) /\ ~ IsReset)
                  => /\ n \in DOMAIN hist_file'
                     /\ hist_file'[n] = hist_file[n]
        /\ Len(attempted') > Len(attempted)
              => ~ IsFoundIn(history, attempted'[Len(attempted')].name)
      ]_vars

\* the step is a search attempt; LastAttempt is the attempt it made
IsAttempt == Len(attempted') = Len(attempted) + 1
LastAttempt == attempted'[Len(attempted')]

\* attempt_count of name n in history h, 0 for a name not in it
AttemptCountIn(h, n) ==
    IF n \in DOMAIN h THEN Get(h[n], "attempt_count", 0) ELSE 0

(***************************************************************************)
(* C13: a network failure during the name search or the affiliation fetch  *)
(* of one author does not abort the batch.  The author is treated as not   *)
(* found, its history entry is updated (found = false, attempt_count       *)
(* incremented, last_search_ts = now), and the loop goes on to the next    *)
(* author with everything else as it was.                                  *)
(***************************************************************************)
C13_FailureIsNotFound ==
    [][ (IsAttempt /\ LastAttempt.failure # "none") =>
           /\ epc' = "searching"
           /\ pos' = pos + 1
           /\ ~ LastAttempt.found
           /\ authors_data' = authors_data
           /\ DOMAIN history' = DOMAIN history \cup {LastAttempt.name}
           /\ history'[LastAttempt.name].found = FALSE
           /\ history'[LastAttempt.name].attempt_count
                 = AttemptCountIn(history, LastAttempt.name) + 1
           /\ history'[LastAttempt.name].last_search_ts = clock
           /\ \A n \in DOMAIN history \ {LastAttempt.name} :
                 history'[n] = history[n]
           /\ enriched_data' = Append(enriched_data, LastAttempt.author)
           /\ UNCHANGED <<to_search, max_searches, authors_file, hist_file>>
      ]_vars

\* a failed lookup, and after it a later author of the run searched
\* and found
C13_Witness ==
    /\ Len(attempted) = 2
    /\ attempted[1].failure # "none"
    /\ attempted[2].found
    /\ attempted[1].name # attempted[2].name

\* the class of an author of the run, from the history as loaded
IsNewAuthor(i) == Get(authors_in[i], "name", <<>>) \notin DOMAIN hist_loaded

\* the new authors of the run that want an affiliation
NewAuthorsOfRun ==
    { i \in DOMAIN authors_in :
         IsNewAuthor(i) /\ ~ HasGoodAffiliation(AffiliationOf(authors_in[i])) }

AttemptedAuthors == { attempted[k].author : k \in DOMAIN attempted }

OutputRefs ==
    IF to_search = <<>> THEN [i \in 1..Len(authors_data) |-> i]
    ELSE enriched_data

\* author i of the DBLP run is no search candidate and the output holds
\* it with the affiliation it came with
DblpUntouched(i) ==
    /\ \A k \in DOMAIN to_search : to_search[k].author # i
    /\ AffiliationOf(authors_data[i]) = AffiliationOf(authors_in[i])
    /\ epc = "done" =>
          \E k \in DOMAIN returned :
             /\ OutputRefs[k] = i
             /\ AffiliationOf(returned[k]) = AffiliationOf(authors_in[i])

\* author i of the CSRankings run is no match candidate and the output
\* holds it with the affiliation it came with
CsrUntouched(i) ==
    /\ \A k \in DOMAIN csr_missing : csr_missing[k] # i
    /\ AffiliationOf(csr_authors[i]) = AffiliationOf(authors_file[1][i])
    /\ csr_out # <<>> =>
          AffiliationOf(csr_out[1][i]) = AffiliationOf(authors_file[1][i])

\* non-empty and different from "Unknown"
HasAffiliation(author) ==
    AffiliationOf(author) # <<>> /\ AffiliationOf(author) # Unknown

(***************************************************************************)
(* C9 as stated: in both enrichers an author whose affiliation is          *)
(* non-empty and different from "Unknown" is never a search/match          *)
(* candidate and its affiliation in the output equals the one in the       *)
(* input.                                                                  *)
(***************************************************************************)
C9_AffiliationUntouched ==
    /\ epc \in {"searching", "done"} =>
          \A i \in DOMAIN authors_in :
             HasAffiliation(authors_in[i]) => DblpUntouched(i)
    /\ csr_pc = "done" =>
          \A i \in DOMAIN csr_authors :
             HasAffiliation(authors_file[1][i]) => CsrUntouched(i)

(***************************************************************************)
(* C9 amended: in the CSRankings enricher an author whose affiliation is   *)
(* non-empty and different from "Unknown", and in the DBLP enricher an     *)
(* author whose affiliation is non-empty, different from "Unknown" and     *)
(* does not start with "_", is never a search/match candidate and its      *)
(* affiliation in the output equals the one in the input.                  *)
(***************************************************************************)
C9_AffiliationUntouched_Amended ==
    /\ epc \in {"searching", "done"} =>
          \A i \in DOMAIN authors_in :
             (/\ HasAffiliation(authors_in[i])
              /\ Head(AffiliationOf(authors_in[i])) # "_")
                 => DblpUntouched(i)
    /\ csr_pc = "done" =>
          \A i \in DOMAIN csr_authors :
             HasAffiliation(authors_file[1][i]) => CsrUntouched(i)

\* both enrichers ran on a list that holds an author with an affiliation
\* and each of them gave another author an affiliation
C9_Witness ==
    /\ epc = "done"
    /\ csr_pc = "done"
    /\ \E i, j \in DOMAIN authors_in :
          /\ HasAffiliation(authors_in[i])
          /\ Head(AffiliationOf(authors_in[i])) # "_"
          /\ AffiliationOf(authors_data[j]) # AffiliationOf(authors_in[j])
    /\ \E i, j \in DOMAIN csr_authors :
          /\ HasAffiliation(authors_file[1][i])
          /\ AffiliationOf(csr_authors[j])
                # AffiliationOf(authors_file[1][j])
    /\ csr_out # <<>>

-----------------------------------------------------------------------------
(* C10: the merge normaliser is idempotent: for every input x,             *)
(* _normalize_name(_normalize_name(x)) = _normalize_name(x).               *)
C10_Idempotent == npc = "twice" => key2 = key1

\* the claimed matcher, on two normalised names
ClaimedMatch(a, c) ==
    LET at == Split(a)
        ct == Split(c)
    IN  \/ a = c
        \/ /\ at # <<>>
           /\ ct # <<>>
           /\ at[Len(at)] = ct[Len(ct)]
           /\ \/ at[1] = ct[1]
              \/ Len(at[1]) = 1 /\ StartsWith(ct[1], at[1])
              \/ Len(ct[1]) = 1 /\ StartsWith(at[1], ct[1])

JohnSmith == <<"J","o","h","n"," ","S","m","i","t","h">>
JaneSmith == <<"J","a","n","e"," ","S","m","i","t","h">>
JohnDoe == <<"J","o","h","n"," ","D","o","e">>
JSmith == <<"J","."," ","S","m","i","t","h">>

C14_MissingInputIsFatal ==
    /\ (mpc # "idle" /\ (authors_json = <<>> \/ ae_members_json = <<>>))
          => /\ rankings_json = <<>>
             /\ summary_yml = <<>>
             /\ mpc # "written"
    /\ (epc # "idle" /\ authors_file = <<>>)
          => epc = "error" /\ returned = <<>>
    /\ (csr_pc # "idle" /\ authors_file = <<>>)
          => csr_pc = "error" /\ csr_out = <<>>

\* the tokens without the k-th
WithoutToken(tokens, k) ==
    SubSeq(tokens, 1, k - 1) \o SubSeq(tokens, k + 1, Len(tokens))

\* one uppercase letter, optionally followed by a period
IsInitialToken(tok) ==
    \/ Len(tok) = 1 /\ IsAsciiUpper(tok[1])
    \/ Len(tok) = 2 /\ IsAsciiUpper(tok[1]) /\ tok[2] = "."

(***************************************************************************)
(* C11: the merge normaliser removes single-letter-initial tokens: a name  *)
(* whose middle token is one uppercase letter, optionally followed by a    *)
(* period, gets the same key as the name without that token.               *)
(***************************************************************************)
C11_InitialsRemoved ==
    LET tokens == Split(nameIn)
    IN  (npc = "once" /\ nameIn = JoinNames(tokens)) =>
           \A k \in 2..(Len(tokens) - 1) :
              IsInitialToken(tokens[k]) =>
                 key1 = NormalizeName(JoinNames(WithoutToken(tokens, k)))

-----------------------------------------------------------------------------
(* Claims about the search loop of the DBLP enricher *)

\* the names searched so far in the run
AttemptedNames == { attempted[k].name : k \in DOMAIN attempted }

\* the entries of name n in the histories g and h are the same, or
\* neither history has one
SameEntry(g, h, n) ==
    /\ n \in DOMAIN g <=> n \in DOMAIN h
    /\ n \in DOMAIN g => g[n] = h[n]

BeyondCap ==
    { to_search[k].author : k \in 1..(pos - 1) } \ AttemptedAuthors

(***************************************************************************)
(* C17: in a run with a cap every eligible author beyond the cap is        *)
(* carried to the output with its record as it came in, and the history    *)
(* entry of its name is as it was loaded (no increment, no new timestamp,  *)
(* no entry created), in the dict of the run and in the saved file, so     *)
(* that the next run decides on the author as if this run had not          *)
(* happened.                                                               *)
(***************************************************************************)
C17_BeyondCapUntouched ==
    epc \in {"searching", "done"} =>
       \A i \in BeyondCap :
          LET n == Get(authors_in[i], "name", <<>>)
          IN  /\ authors_data[i] = authors_in[i]
              /\ \E k \in DOMAIN enriched_data : enriched_data[k] = i
              /\ SameEntry(history, hist_loaded, n)
              /\ epc = "done" =>
                    /\ \E k \in DOMAIN returned :
                          enriched_data[k] = i /\ returned[k] = authors_in[i]
                    /\ SameEntry(hist_file, hist_loaded, n)
                    /\ ShouldSearchAuthor(n, hist_file, clock)
                          = ShouldSearchAuthor(n, hist_loaded, clock)

(***************************************************************************)
(* C18: when a cap max_searches = k is supplied, for every integer         *)
(* k >= 0, the run performs at most k search attempts:                     *)
(* searches_performed <= k in every state of the run and at its end.       *)
(***************************************************************************)
C18_CapBoundsSearches ==
    (epc \in {"searching", "done"} /\ max_searches # <<>>)
        => searches_performed <= max_searches[1]

\* the search attempts of the run that sent a request to DBLP
NetworkAttempts == { k \in DOMAIN attempted : attempted[k].requests > 0 }

(***************************************************************************)
(* C19: a search attempt whose lookups are answered from the cache counts  *)
(* in searches_performed but not against the cap: searches_performed is    *)
(* the number of all attempts, and an author is passed by for the cap      *)
(* only when the attempts that sent a request have used the cap up.        *)
(***************************************************************************)
C19_CacheHitsAreFree ==
    epc \in {"searching", "done"} =>
       /\ searches_performed = Len(attempted)
       /\ BeyondCap # {} =>
             /\ max_searches # <<>>
             /\ Cardinality(NetworkAttempts) >= max_searches[1]

\* how often the output of the run holds the author dict i
TimesInOutput(i) ==
    Cardinality({ k \in DOMAIN OutputRefs : OutputRefs[k] = i })

\* the dicts a and b differ in the affiliation at most
SameButAffiliation(a, b) ==
    /\ DOMAIN a \ {"affiliation"} = DOMAIN b \ {"affiliation"}
    /\ \A f \in DOMAIN a \ {"affiliation"} : a[f] = b[f]

(***************************************************************************)
(* C20: for every input list and every cap the enriched collection holds   *)
(* every input author record exactly once, none dropped and none twice,    *)
(* whether the author had an affiliation, was in backoff, was searched or  *)
(* was beyond the cap.                                                     *)
(***************************************************************************)
C20_EveryAuthorOnce ==
    /\ epc = "searching" =>
          \A i \in DOMAIN authors_in :
             /\ TimesInOutput(i) <= 1
             /\ TimesInOutput(i) = 1
                   <=> \A k \in pos..Len(to_search) : to_search[k].author # i
    /\ epc = "done" =>
          /\ Len(returned) = Len(authors_in)
          /\ \A i \in DOMAIN authors_in :
                /\ TimesInOutput(i) = 1
                /\ \A k \in DOMAIN returned :
                      OutputRefs[k] = i =>
                         /\ returned[k] = authors_data[i]
                         /\ SameButAffiliation(returned[k], authors_in[i])

\* a run that is over, on two authors: one was searched and got an
\* affiliation, the other one was beyond the cap
C20_Witness ==
    /\ epc = "done"
    /\ Len(authors_in) = 2
    /\ BeyondCap # {}
    /\ \E k \in DOMAIN attempted : attempted[k].found

-----------------------------------------------------------------------------
(* Claims about missing fields in the merge *)

\* _merge_rankings has returned or raised
MergeOver == mpc \in {"error", "merged", "filtered", "written"}

\* the numeric fields of author a, 0 for a missing one, are the ones of
\* entry e
AuthorFieldsIn(a, e) ==
    /\ e.artifacts = Get(a, "total", Get(a, "artifact_count", 0))
    /\ e.total_papers = Get(a, "total_papers", 0)
    /\ e.artifact_rate = Get(a, "artifact_rate", 0)
    /\ e.badges_available = Get(a, "badges_available", 0)
    /\ e.badges_functional = Get(a, "badges_functional", 0)
    /\ e.badges_reproducible = Get(a, "badges_reproducible", 0)

\* the counts of member m, 0 for a missing one, are the ones of entry e
MemberFieldsIn(m, e) ==
    /\ e.ae_memberships = Get(m, "total_memberships", 0)
    /\ e.chair_count = Get(m, "chair_count", 0)

\* the only author of key k: the author that absorbs the member of k
SoleAuthor(i, k) == AuthorsOfKey(k) = {i}

(***************************************************************************)
(* C21: a missing optional numeric field of an author record or of a       *)
(* member record counts as 0 and the merge completes without error, both   *)
(* when the member is absorbed by a winning author and when it is in the   *)
(* output standalone.                                                      *)
(***************************************************************************)
C21_MissingFieldsAreZero ==
    MergeOver =>
       /\ mpc # "error"
       /\ Len(built) >= Len(authors)
       /\ \A i \in DOMAIN authors :
             /\ AuthorFieldsIn(authors[i], built[i])
             /\ \A k \in MemberKeys :
                   SoleAuthor(i, k) => MemberFieldsIn(KeptMember(k), built[i])
       /\ \A k \in MemberKeys :
             AuthorsOfKey(k) = {} =>
                \E j \in DOMAIN built :
                   /\ j > Len(authors)
                   /\ built[j].name = KeptMember(k).name
                   /\ built[j].artifacts = 0
                   /\ MemberFieldsIn(KeptMember(k), built[j])

-----------------------------------------------------------------------------
(* Claims about the cache *)

\* a file with both keys and a number as ts
WellFormedEntry(f) == DOMAIN f = {"ts", "body"}

\* the path of the last call
LastPath == CachePath(c_slot.key, c_slot.namespace)

(***************************************************************************)
(* C22: freshness is enforced at the read side only.  _read_cache returns  *)
(* the stored body if and only if an entry exists for the key, is          *)
(* well-formed and now - ts < ttl; a missing, stale or corrupt entry is    *)
(* reported as absent without raising; a read leaves every cache entry as  *)
(* it is, and the store changes only by _write_cache overwriting the       *)
(* entry of its own key.                                                   *)
(***************************************************************************)
C22_ReadSideFreshness ==
    /\ [](cpc = "read" =>
             /\ ~ c_res.raised
             /\ c_res.value =
                   IF /\ LastPath \in DOMAIN cache
                      /\ WellFormedEntry(cache[LastPath])
                      /\ clock - cache[LastPath].ts < CACHE_TTL
                   THEN <<cache[LastPath].body>>
                   ELSE <<>>)
    /\ [][cpc' = "read" => cache' = cache]_vars
    /\ [][cache' # cache =>
             /\ cpc' = "written"
             /\ DOMAIN cache' = DOMAIN cache \cup {LastPath'}
             /\ WellFormedEntry(cache'[LastPath'])
             /\ cache'[LastPath'].ts = clock
             /\ \A q \in DOMAIN cache \ {LastPath'} : cache'[q] = cache[q]
         ]_vars

=============================================================================
